---- MODULE Spec2Model ----
(***************************************************************************)
(* Model of opcua-client.py: one invocation of main(), which validates the *)
(* authentication arguments, connects to an OPC UA server, reads a node or *)
(* converts, writes and reads back a value, and disconnects.               *)
(*                                                                         *)
(* Every `await` of a library call is two steps: the call (the request is  *)
(* issued and outstanding) and its return (the library call returns or     *)
(* raises).  The library and the server are the environment: each call may *)
(* return normally or raise a ValueError or another Exception.             *)
(***************************************************************************)
EXTENDS Integers, Sequences, FiniteSets, TLC

(***************************************************************************)
(* Bounds of the model.                                                    *)
(***************************************************************************)
\* longest raw --value string that is enumerated
MaxLen == 3

\* the characters raw strings are built from: digits, sign, decimal point,
\* blank, and the letters of "nan".  Characters outside it ("_", "e", "+",
\* "inf", ...) are never input, so the parsers below do not treat them.
Alphabet == {"0", "1", "2", "-", ".", " ", "n", "a"}

RECURSIVE SeqsUpTo(_)
SeqsUpTo(n) ==
    IF n = 0 THEN {<<>>}
    ELSE LET shorter == SeqsUpTo(n - 1)
         IN  shorter \cup {Append(s, c) : s \in {t \in shorter : Len(t) = n - 1}, c \in Alphabet}

RawStrings == SeqsUpTo(MaxLen)

(***************************************************************************)
(* Python values.  t is the Python type; a number is m * 10^e with e <= 0, *)
(* normalised so that equal numbers have equal (m, e); s is the text of a  *)
(* str.                                                                    *)
(***************************************************************************)
PyNone == [t |-> "none", m |-> 0, e |-> 0, s |-> <<>>]
PyStr(s) == [t |-> "str", m |-> 0, e |-> 0, s |-> s]
PyInt(n) == [t |-> "int", m |-> n, e |-> 0, s |-> <<>>]
PyBool(b) == [t |-> "bool", m |-> IF b THEN 1 ELSE 0, e |-> 0, s |-> <<>>]
PyFloat(m, e) == [t |-> "float", m |-> m, e |-> e, s |-> <<>>]
PyNaN == [t |-> "nan", m |-> 0, e |-> 0, s |-> <<>>]

\* Python truth value of an object (bool(x), `if x`, `x and y`)
Truthy(x) ==
    CASE x.t = "none" -> FALSE
      [] x.t = "str" -> Len(x.s) > 0
      [] x.t = "nan" -> TRUE
      [] OTHER -> x.m # 0

\* Python ==, as used on line 62: numbers compare by value across int, bool
\* and float, a NaN equals nothing (not even itself), strs compare by text
PyEq(a, b) ==
    LET num == {"int", "bool", "float"}
    IN  CASE a.t = "nan" \/ b.t = "nan" -> FALSE
          [] a.t \in num /\ b.t \in num -> a.m = b.m /\ a.e = b.e
          [] a.t = "str" /\ b.t = "str" -> a.s = b.s
          [] a.t = "none" /\ b.t = "none" -> TRUE
          [] OTHER -> FALSE

(***************************************************************************)
(* int(str) and float(str) of Python, on strings over Alphabet.            *)
(***************************************************************************)
Digits == {"0", "1", "2", "3", "4", "5", "6", "7", "8", "9"}

DigitVal(c) ==
    CASE c = "0" -> 0 [] c = "1" -> 1 [] c = "2" -> 2 [] c = "3" -> 3
      [] c = "4" -> 4 [] c = "5" -> 5 [] c = "6" -> 6 [] c = "7" -> 7
      [] c = "8" -> 8 [] c = "9" -> 9

AllDigits(s) == \A i \in 1..Len(s) : s[i] \in Digits

RECURSIVE DigitsVal(_)
DigitsVal(s) ==
    IF s = <<>> THEN 0
    ELSE DigitsVal(SubSeq(s, 1, Len(s) - 1)) * 10 + DigitVal(s[Len(s)])

\* int() and float() ignore leading and trailing whitespace
RECURSIVE Strip(_)
Strip(s) ==
    IF s = <<>> THEN s
    ELSE IF s[1] = " " THEN Strip(Tail(s))
    ELSE IF s[Len(s)] = " " THEN Strip(SubSeq(s, 1, Len(s) - 1))
    ELSE s

Signed(s) == s # <<>> /\ s[1] = "-"
Unsigned(s) == IF Signed(s) THEN Tail(s) ELSE s
SignOf(s) == IF Signed(s) THEN -1 ELSE 1

\* int(raw): blanks stripped, optional sign, then one or more decimal digits
ParseInt(raw) ==
    LET s == Strip(raw)
        body == Unsigned(s)
    IN  IF body # <<>> /\ AllDigits(body)
        THEN [ok |-> TRUE, val |-> PyInt(SignOf(s) * DigitsVal(body))]
        ELSE [ok |-> FALSE, val |-> PyNone]

RECURSIVE Normalise(_, _)
Normalise(m, e) ==
    IF m = 0 THEN <<0, 0>>
    ELSE IF e < 0 /\ m % 10 = 0 THEN Normalise(m \div 10, e + 1)
    ELSE <<m, e>>

\* float(raw): blanks stripped, optional sign, then "nan" or digits with at
\* most one point and at least one digit
ParseFloat(raw) ==
    LET s == Strip(raw)
        body == Unsigned(s)
        dots == {i \in 1..Len(body) : body[i] = "."}
        dot == IF dots = {} THEN Len(body) + 1 ELSE CHOOSE i \in dots : TRUE
        whole == SubSeq(body, 1, dot - 1)
        frac == SubSeq(body, dot + 1, Len(body))
        n == Normalise(SignOf(s) * DigitsVal(whole \o frac), -Len(frac))
    IN  IF body = <<"n", "a", "n">>
        THEN [ok |-> TRUE, val |-> PyNaN]
        ELSE IF Cardinality(dots) <= 1 /\ AllDigits(whole) /\ AllDigits(frac)
                /\ Len(whole) + Len(frac) > 0
        THEN [ok |-> TRUE, val |-> PyFloat(n[1], n[2])]
        ELSE [ok |-> FALSE, val |-> PyNone]

(***************************************************************************)
(* convert_value_to_node_type, after the data type has been read.          *)
(***************************************************************************)
\* VariantType members a node may report; UInt32 and DateTime stand for the
\* members the conversion has no rule for
DataTypes == {"Int16", "Int32", "Int64", "Float", "Double", "Boolean", "String",
              "UInt32", "DateTime"}

Returned(v) == [exc |-> "none", val |-> v]
Raised(x) == [exc |-> x, val |-> PyNone]

\* convert_value_to_node_type without the final raise: a type with no rule
\* passes the raw value through
convert_without_raise(data_type, value) ==
    IF data_type \in {"Int16", "Int32", "Int64"}
    THEN IF ParseInt(value.s).ok THEN Returned(ParseInt(value.s).val) ELSE Raised("ValueError")
    ELSE IF data_type \in {"Float", "Double"}
    THEN IF ParseFloat(value.s).ok THEN Returned(ParseFloat(value.s).val) ELSE Raised("ValueError")
    ELSE IF data_type = "Boolean"
    THEN IF ParseInt(value.s).ok
         THEN Returned(PyBool(Truthy(ParseInt(value.s).val)))
         ELSE Raised("ValueError")
    ELSE Returned(value)

convert_value_to_node_type(data_type, value) ==
    IF data_type \in {"Int16", "Int32", "Int64"}
    THEN IF ParseInt(value.s).ok THEN Returned(ParseInt(value.s).val) ELSE Raised("ValueError")
    ELSE IF data_type \in {"Float", "Double"}
    THEN IF ParseFloat(value.s).ok THEN Returned(ParseFloat(value.s).val) ELSE Raised("ValueError")
    ELSE IF data_type = "Boolean"
    THEN IF ParseInt(value.s).ok
         THEN Returned(PyBool(Truthy(ParseInt(value.s).val)))
         ELSE Raised("ValueError")
    ELSE IF data_type = "String"
    THEN Returned(value)
    ELSE Raised("ValueError")

(***************************************************************************)
(* The arguments main is invoked with.                                     *)
(***************************************************************************)
AuthTypes == {"anonymous", "userpass", "certificate"}
Operations == {"read", "write", "delete"}
\* --username / --password: absent, empty or given
Creds == {PyNone, PyStr(<<>>), PyStr(<<"a">>)}
\* --value: absent, or any raw string
Values == {PyNone} \cup {PyStr(s) : s \in RawStrings}

\* every authentication case with every operation, and every raw value on
\* the write path
Inputs ==
    (AuthTypes \X Creds \X Creds \X Operations \X {PyNone, PyStr(<<"1">>)})
    \cup ({"anonymous"} \X {PyNone} \X {PyNone} \X {"write"} \X Values)

\* what a library call does: returns, or raises
Outcomes == {"ok", "ValueError", "Exception"}

\* the value the node holds before the invocation, and the value a server
\* that does not keep a written value holds instead
ServerValues == {PyInt(42)}

VARIABLES
    pc,              \* position in main
    auth_type, username, password, operation, value,   \* main's parameters
    data_type,       \* line 13, "none" until the node has reported it
    converted_value, \* line 55
    new_value,       \* line 61
    stored,          \* the value the server holds for the node
    trace,           \* the requests issued to the library, in order
    results,         \* results[i] is the outcome of trace[i]
    outstanding,     \* the request awaited now, or "none"
    log,             \* the log lines emitted, as <<level, message>>
    raised           \* the exception main ends with, or "none"

vars == <<pc, auth_type, username, password, operation, value, data_type,
          converted_value, new_value, stored, trace, results, outstanding, log, raised>>

args == <<auth_type, username, password, operation>>
locals == <<data_type, converted_value, new_value>>
io == <<trace, results, outstanding>>

Init ==
    /\ pc = "main"
    /\ auth_type = "anonymous" /\ username = PyNone /\ password = PyNone
    /\ operation = "read" /\ value = PyNone
    /\ data_type = "none" /\ converted_value = PyNone /\ new_value = PyNone
    /\ stored \in ServerValues
    /\ trace = <<>> /\ results = <<>> /\ outstanding = "none"
    /\ log = <<>>
    /\ raised = "none"

Error(msg) == <<"ERROR", msg>>
Info(msg) == <<"INFO", msg>>
Warning(msg) == <<"WARNING", msg>>

\* the argument check with `username or password` for `username and password`
AuthCheckEither(a, u, p) ==
    IF a = "userpass"
    THEN IF Truthy(u) \/ Truthy(p) THEN "" ELSE "Username and password must be provided"
    ELSE IF a # "anonymous" THEN "Invalid authentication type" ELSE ""

\* lines 30-39: which log line the argument check ends with, "" if it passes
AuthCheck(a, u, p) ==
    IF a = "userpass"
    THEN IF Truthy(u) /\ Truthy(p) THEN "" ELSE "Username and password must be provided"
    ELSE IF a # "anonymous" THEN "Invalid authentication type" ELSE ""

\* lines 27-39: main is entered and checks the authentication arguments
Main ==
    /\ pc = "main"
    /\ \E in \in Inputs :
        /\ auth_type' = in[1] /\ username' = in[2] /\ password' = in[3]
        /\ operation' = in[4] /\ value' = in[5]
        /\ IF AuthCheck(in[1], in[2], in[3]) = ""
           THEN pc' = "connect" /\ log' = log
           ELSE pc' = "returned" /\ log' = Append(log, Error(AuthCheck(in[1], in[2], in[3])))
    /\ UNCHANGED <<locals, stored, io, raised>>

\* a library call is issued and awaited
Call(req, next) ==
    /\ trace' = Append(trace, req)
    /\ outstanding' = req
    /\ pc' = next
    /\ UNCHANGED results

\* the awaited call ends with outcome o
Return(o) ==
    /\ results' = Append(results, o)
    /\ outstanding' = "none"
    /\ UNCHANGED trace

\* line 42: await client.connect()
Connect ==
    /\ pc = "connect"
    /\ Call("connect", "connecting")
    /\ UNCHANGED <<args, value, locals, stored, log, raised>>

\* connect whose failure is logged but does not leave the try block
ConnectedSwallows ==
    /\ pc = "connecting"
    /\ \E o \in Outcomes :
        /\ Return(o)
        /\ IF o = "ok"
           THEN log' = Append(log, Info("Connected"))
           ELSE log' = Append(log, Error("An error occurred"))
    /\ pc' = "dispatch"
    /\ UNCHANGED <<args, value, locals, stored, raised>>

\* lines 42-43, 73-74: connect returns, or raises into the outer handler
Connected ==
    /\ pc = "connecting"
    /\ \E o \in Outcomes :
        /\ Return(o)
        /\ IF o = "ok"
           THEN pc' = "dispatch" /\ log' = Append(log, Info("Connected"))
           ELSE pc' = "finally" /\ log' = Append(log, Error("An error occurred"))
    /\ UNCHANGED <<args, value, locals, stored, raised>>

\* the branch on operation with the error returns leaving main directly, as
\* if they stood outside the try block
DispatchOutsideTry ==
    /\ pc = "dispatch"
    /\ IF operation = "read"
       THEN pc' = "read" /\ log' = log
       ELSE IF operation = "write"
       THEN IF value = PyNone
            THEN pc' = "returned" /\ log' = Append(log, Error("Value must be provided"))
            ELSE pc' = "convert" /\ log' = log
       ELSE pc' = "returned" /\ log' = Append(log, Error("Invalid operation"))
    /\ UNCHANGED <<args, value, locals, stored, io, raised>>

\* lines 45-53, 70-71: the branch on operation; a return inside the try goes
\* to the finally clause
Dispatch ==
    /\ pc = "dispatch"
    /\ IF operation = "read"
       THEN pc' = "read" /\ log' = log
       ELSE IF operation = "write"
       THEN IF value = PyNone
            THEN pc' = "finally" /\ log' = Append(log, Error("Value must be provided"))
            ELSE pc' = "convert" /\ log' = log
       ELSE pc' = "finally" /\ log' = Append(log, Error("Invalid operation"))
    /\ UNCHANGED <<args, value, locals, stored, io, raised>>

\* line 47: await node.read_value()
Read ==
    /\ pc = "read"
    /\ Call("read_value", "reading")
    /\ UNCHANGED <<args, value, locals, stored, log, raised>>

\* lines 47-48, 73-74: the read returns into value, or raises into the outer
\* handler
ReadDone ==
    /\ pc = "reading"
    /\ \E o \in Outcomes :
        /\ Return(o)
        /\ IF o = "ok"
           THEN value' = stored /\ log' = Append(log, Info("Value of node"))
           ELSE value' = value /\ log' = Append(log, Error("An error occurred"))
    /\ pc' = "finally"
    /\ UNCHANGED <<args, locals, stored, raised>>

\* lines 66-69: the handlers of the write path
WriteHandler(exc) ==
    IF exc = "ValueError"
    THEN Error("Value conversion error")
    ELSE Error("An error occurred while writing")

\* lines 55, 13: await node.read_data_type_as_variant_type()
Convert ==
    /\ pc = "convert"
    /\ Call("read_data_type", "converting")
    /\ UNCHANGED <<args, value, locals, stored, log, raised>>

\* lines 13-25, 55-56, 66-69: the data type arrives and the value is
\* converted, or either step raises into the handlers of the write path
Converted ==
    /\ pc = "converting"
    /\ \E o \in Outcomes :
        /\ Return(o)
        /\ IF o = "ok"
           THEN \E dt \in DataTypes :
                LET r == convert_value_to_node_type(dt, value)
                IN  /\ data_type' = dt
                    /\ IF r.exc = "none"
                       THEN /\ converted_value' = r.val
                            /\ log' = Append(log, Info("Attempting to write"))
                            /\ pc' = "write"
                       ELSE /\ converted_value' = converted_value
                            /\ log' = Append(log, WriteHandler(r.exc))
                            /\ pc' = "finally"
           ELSE /\ UNCHANGED <<data_type, converted_value>>
                /\ log' = Append(log, WriteHandler(o))
                /\ pc' = "finally"
    /\ UNCHANGED <<args, value, new_value, stored, raised>>

\* what line 57 passes to node.write_value
WrittenValue == converted_value

\* line 57: await node.write_value(converted_value)
Write ==
    /\ pc = "write"
    /\ Call("write_value", "writing")
    /\ UNCHANGED <<args, value, locals, stored, log, raised>>

\* a write that is issued again when it fails
WrittenRetries ==
    /\ pc = "writing"
    /\ \E o \in Outcomes :
        /\ Return(o)
        /\ IF o = "ok"
           THEN /\ stored' \in {WrittenValue} \cup ServerValues
                /\ log' = Append(log, Info("Updated value"))
                /\ pc' = "verify"
           ELSE /\ stored' = stored
                /\ log' = Append(log, WriteHandler(o))
                /\ pc' = "write"
    /\ UNCHANGED <<args, value, locals, raised>>

\* lines 57-58, 66-69: the write returns, or raises.  A server that accepts
\* the write holds the written value afterwards, or a value of its own.
Written ==
    /\ pc = "writing"
    /\ \E o \in Outcomes :
        /\ Return(o)
        /\ IF o = "ok"
           THEN /\ stored' \in {WrittenValue} \cup ServerValues
                /\ log' = Append(log, Info("Updated value"))
                /\ pc' = "verify"
           ELSE /\ stored' = stored
                /\ log' = Append(log, WriteHandler(o))
                /\ pc' = "finally"
    /\ UNCHANGED <<args, value, locals, raised>>

\* line 61: await node.read_value()
Verify ==
    /\ pc = "verify"
    /\ Call("read_value", "verifying")
    /\ UNCHANGED <<args, value, locals, stored, log, raised>>

\* the comparison with a mismatch reported as an error
VerifyLineError(read_back, expected) ==
    IF PyEq(read_back, expected)
    THEN Info("Verified")
    ELSE Error("Verification failed")

\* lines 62-65: the comparison of the read-back with the converted value
VerifyLine(read_back, expected) ==
    IF PyEq(read_back, expected)
    THEN Info("Verified")
    ELSE Warning("Verification failed")

\* lines 61-69: the read-back returns and is compared, or raises
Verified ==
    /\ pc = "verifying"
    /\ \E o \in Outcomes :
        /\ Return(o)
        /\ IF o = "ok"
           THEN /\ new_value' = stored
                /\ log' = Append(log, VerifyLine(stored, converted_value))
           ELSE /\ new_value' = new_value
                /\ log' = Append(log, WriteHandler(o))
    /\ pc' = "finally"
    /\ UNCHANGED <<args, value, data_type, converted_value, stored, raised>>

\* line 76: await client.disconnect()
Disconnect ==
    /\ pc = "finally"
    /\ Call("disconnect", "disconnecting")
    /\ UNCHANGED <<args, value, locals, stored, log, raised>>

\* lines 76-77: disconnect returns, or raises out of main
Disconnected ==
    /\ pc = "disconnecting"
    /\ \E o \in Outcomes :
        /\ Return(o)
        /\ IF o = "ok"
           THEN raised' = "none" /\ log' = Append(log, Info("Disconnected"))
           ELSE raised' = o /\ log' = log
    /\ pc' = "returned"
    /\ UNCHANGED <<args, value, locals, stored>>

Next ==
    \/ Main
    \/ Connect \/ Connected
    \/ Dispatch
    \/ Read \/ ReadDone
    \/ Convert \/ Converted
    \/ Write \/ Written
    \/ Verify \/ Verified
    \/ Disconnect \/ Disconnected

Spec == Init /\ [][Next]_vars

(***************************************************************************)
(* Properties.                                                             *)
(***************************************************************************)
Elems(seq) == {seq[i] : i \in 1..Len(seq)}
Count(seq, x) == Cardinality({i \in 1..Len(seq) : seq[i] = x})
Invoked == pc # "main"
Missing(c) == c = PyNone \/ c = PyStr(<<>>)
AuthAccepted ==
    \/ auth_type = "anonymous"
    \/ auth_type = "userpass" /\ ~Missing(username) /\ ~Missing(password)
\* the i-th request was req and ended with an outcome in os
Ended(i, req, os) ==
    Len(results) >= i /\ trace[i] = req /\ results[i] \in os
Failures == Outcomes \ {"ok"}
ErrorLogged == \E i \in 1..Len(log) : log[i][1] = "ERROR"

\* C1 as claimed: every invocation of main, whatever its arguments, has
\* called client.disconnect exactly once when it returns.
C1_DisconnectOnceAlways ==
    pc = "returned" => Count(trace, "disconnect") = 1

\* C1 as amended: disconnect is never called twice, and an invocation that
\* passes the authentication check has called it exactly once when main
\* returns, whatever connect, the data-type query, the write and the reads
\* did; an invocation the authentication check rejects never calls it.
C1_DisconnectOnceAfterAuth ==
    /\ Count(trace, "disconnect") <= 1
    /\ pc = "returned" =>
          Count(trace, "disconnect") = (IF AuthAccepted THEN 1 ELSE 0)

C1_Witness ==
    /\ pc = "returned" /\ operation = "write" /\ value = PyNone
    /\ Ended(1, "connect", {"ok"})
    /\ Count(trace, "disconnect") = 1

\* C2: main invoked with operation 'write' and no value never calls
\* client.connect.
C2_NoConnectWithoutValue ==
    (Invoked /\ operation = "write" /\ value = PyNone) => Count(trace, "connect") = 0

\* C3: main invoked with auth_type 'userpass' and an empty or missing
\* username or password logs the configuration error and issues no request
\* at all: no connect, read, data-type query or write.
C3_NoRequestWithoutCredentials ==
    (Invoked /\ auth_type = "userpass" /\ (Missing(username) \/ Missing(password))) =>
        /\ trace = <<>>
        /\ pc = "returned" /\ raised = "none"
        /\ log = <<Error("Username and password must be provided")>>

C3_Witness ==
    /\ pc = "returned" /\ auth_type = "userpass"
    /\ username = PyStr(<<"a">>) /\ password = PyStr(<<>>)
    /\ operation = "write" /\ value # PyNone

\* C4: main invoked with an operation that is neither 'read' nor 'write'
\* issues no request: neither connect nor any node request.
C4_NoRequestForInvalidOperation ==
    (Invoked /\ operation \notin {"read", "write"}) => trace = <<>>

\* the conversion of the raw value for the reported data type fails
ConversionFails ==
    /\ data_type # "none"
    /\ \/ data_type \notin {"Int16", "Int32", "Int64", "Float", "Double", "Boolean", "String"}
       \/ data_type \in {"Int16", "Int32", "Int64", "Boolean"} /\ ~ParseInt(value.s).ok
       \/ data_type \in {"Float", "Double"} /\ ~ParseFloat(value.s).ok

\* C5: on the write path, when the conversion fails (unsupported data type
\* or unparsable raw string) node.write_value is never called and no
\* verification read is issued; the error is logged as a conversion error
\* and main raises nothing because of it.
C5_FailedConversionAbortsWrite ==
    ConversionFails =>
        /\ Count(trace, "write_value") = 0
        /\ Count(trace, "read_value") = 0
        /\ pc \in {"finally", "disconnecting", "returned"}
        /\ Error("Value conversion error") \in Elems(log)
        /\ raised # "none" => Ended(Len(trace), "disconnect", Failures)

C5_Witness ==
    /\ pc = "returned" /\ raised = "none"
    /\ data_type = "Int32" /\ value = PyStr(<<"1", ".", "2">>)
    /\ ConversionFails

\* the request sequences of one invocation
Bodies ==
    {<<>>, <<"read_value">>, <<"read_data_type">>, <<"read_data_type", "write_value">>,
     <<"read_data_type", "write_value", "read_value">>}
Runs ==
    {<<>>} \cup {<<"connect">> \o b : b \in Bodies}
           \cup {<<"connect">> \o b \o <<"disconnect">> : b \in Bodies}

\* C6: the requests of an invocation are sequential and never retried: the
\* trace is connect, then one read_value or a prefix of read_data_type,
\* write_value, read_value, then disconnect; connect and write_value are
\* issued at most once; at most one request is outstanding and it is the
\* last one issued; a request that failed is followed by disconnect only;
\* nothing follows disconnect.
C6_SequentialNoRetry ==
    /\ trace \in Runs
    /\ operation = "read" => Count(trace, "read_data_type") = 0
    /\ operation = "write" => (Count(trace, "read_value") > 0 => Count(trace, "write_value") = 1)
    /\ Count(trace, "connect") <= 1 /\ Count(trace, "write_value") <= 1
    /\ IF outstanding = "none"
       THEN Len(results) = Len(trace)
       ELSE Len(results) = Len(trace) - 1 /\ trace[Len(trace)] = outstanding
    /\ \A i \in 1..Len(results) :
          (results[i] # "ok" /\ i < Len(trace)) => trace[i + 1] = "disconnect"
    /\ \A i \in 1..Len(trace) : trace[i] = "disconnect" => i = Len(trace)

C6_Witness ==
    /\ pc = "returned"
    /\ trace = <<"connect", "read_data_type", "write_value", "read_value", "disconnect">>
    /\ results = <<"ok", "ok", "ok", "ok", "ok">>

\* C7: when client.connect raises, the failure is logged, no read_value,
\* read_data_type or write_value is issued, and disconnect is called next:
\* main does not return without it.
C7_ConnectFailureStillDisconnects ==
    Ended(1, "connect", Failures) =>
        /\ log[1] = Error("An error occurred")
        /\ trace \in {<<"connect">>, <<"connect", "disconnect">>}
        /\ pc \in {"finally", "disconnecting", "returned"}
        /\ pc # "finally" => trace = <<"connect", "disconnect">>

C7_Witness ==
    /\ pc = "returned"
    /\ Ended(1, "connect", Failures)
    /\ Ended(2, "disconnect", {"ok"})

\* the verification read returned, on a node of integer, float or string
\* type whose server holds the value that was written
ReadBackOfKeptValue ==
    /\ Ended(4, "read_value", {"ok"})
    /\ data_type \in {"Int16", "Int32", "Int64", "Float", "Double", "String"}
    /\ stored = converted_value

\* C8: for every integer, float or string node and every raw string valid
\* for its type, when the server holds what was written the read-back equals
\* the converted value: 'Verified' is logged and 'Verification failed' is
\* not.
C8_ReadBackVerifies ==
    ReadBackOfKeptValue =>
        /\ Info("Verified") \in Elems(log)
        /\ Warning("Verification failed") \notin Elems(log)

\* The comparison of line 62 goes wrong for a floating-point NaN only: every
\* other kept value is verified.
ReadBackVerifiesUnlessNaN ==
    (ReadBackOfKeptValue /\ converted_value # PyNaN) =>
        /\ new_value = converted_value
        /\ Info("Verified") \in Elems(log)
        /\ Warning("Verification failed") \notin Elems(log)

\* the read-back differed from the converted value
Mismatch ==
    Ended(4, "read_value", {"ok"}) /\ ~PyEq(new_value, converted_value)

\* C9: a read-back that differs from the converted value is not an error:
\* the invocation logs the warning and no error, does not issue the write
\* again, and goes on to the one disconnect; main raises nothing unless that
\* disconnect itself fails.
C9_MismatchIsOnlyAWarning ==
    Mismatch =>
        /\ Warning("Verification failed") \in Elems(log)
        /\ ~ErrorLogged
        /\ Count(trace, "write_value") = 1
        /\ pc \in {"finally", "disconnecting", "returned"}
        /\ pc = "returned" =>
              trace[Len(trace)] = "disconnect" /\ Count(trace, "disconnect") = 1
        /\ raised # "none" => Ended(5, "disconnect", Failures)

C9_Witness ==
    /\ pc = "returned" /\ raised = "none"
    /\ Mismatch
    /\ converted_value = PyInt(12) /\ new_value = PyInt(42)
    /\ log[Len(log)] = Info("Disconnected")

\* C10: for a Boolean node the raw string "1" converts to true and "0" to
\* false, and every other raw string is a conversion error, so that no
\* value is written for it.
C10_BooleanOnlyZeroOrOne ==
    (data_type = "Boolean") =>
        /\ value = PyStr(<<"1">>) => converted_value = PyBool(TRUE)
        /\ value = PyStr(<<"0">>) => converted_value = PyBool(FALSE)
        /\ value \notin {PyStr(<<"0">>), PyStr(<<"1">>)} =>
              /\ Count(trace, "write_value") = 0
              /\ Error("Value conversion error") \in Elems(log)

====
